---- MODULE Spec2Model ----
(***************************************************************************)
(* Query guard of ai-search-2.0: the validator of                          *)
(* src/services/queryProtection.ts (QueryProtectionService) and the        *)
(* guarded query() entry point that the documentation and the test scripts *)
(* describe.  SQL texts are TLA+ strings; the validator's regular          *)
(* expressions and String methods are computed character by character.     *)
(***************************************************************************)
EXTENDS Integers, Sequences, FiniteSets, TLC

VARIABLES
    config,      \* QueryProtectionService.config (private field)
    vsql,        \* validator run: the sql argument
    vparams,     \* validator run: the params argument
    vres,        \* validator run: the last result of validateQuery(vsql, vparams)
    vprev,       \* validator run: the result of the call before the last one
    vcalls,      \* validator run: number of validateQuery(vsql, vparams) calls made
    vothers,     \* validator run: number of validateQuery calls made on other texts
    pc,          \* guarded call of each caller: "idle", "racing" or "done"
    csql,        \* guarded call: the statement
    validation,  \* guarded call: the validator's verdict
    driver,      \* guarded call: promise of pool.query for the statement
    driverRows,  \* guarded call: rows the driver resolved with
    driverMessage, \* guarded call: message of the error the driver rejected with
    timer,       \* guarded call: the timeout timer of the race
    elapsed,     \* guarded call: milliseconds since the race started
    outcome,     \* guarded call: how the call settled
    driverCalls, \* guarded call: statements handed to pool.query, in order
    ceiling,     \* guarded call: fate of the session-level statement_timeout
    logged,      \* guarded call: events handed to the logging sink, in order
    conn,        \* guarded call: pooled connection the statement is running on
    ceilingConn, \* guarded call: pooled connection the session ceiling went
                 \* to, tracked while the statement runs
    got,         \* service run: the object the last getConfig() returned
    gotShared,   \* service run: whether that object is the service's own config
    sret,        \* service run: what the last limitResults or
                 \* getStatementTimeoutSql call returned
    scalls,      \* service run: number of calls made on the service
    pool,        \* database.ts: the module-level pool variable
    poolState,   \* database.ts: each Pool object: not created, open, ending
                 \* (end() called), ended
    ppc,         \* database.ts: where each caller is in query() or closePool()
    qpool,       \* database.ts: the pool getPool() handed to the caller's call
    qstate       \* database.ts: the state that pool was in when query() used it

vvars == <<vsql, vparams, vres, vprev, vcalls, vothers>>
gvars == <<pc, csql, validation, driver, driverRows, driverMessage, timer,
           elapsed, outcome, driverCalls, ceiling, logged, conn, ceilingConn>>
svars == <<got, gotShared, sret, scalls>>
pvars == <<pool, poolState, ppc, qpool, qstate>>
vars == <<config, vsql, vparams, vres, vprev, vcalls, vothers, pc, csql,
          validation, driver, driverRows, driverMessage, timer, elapsed,
          outcome, driverCalls, ceiling, logged, conn, ceilingConn,
          got, gotShared, sret, scalls, pool, poolState, ppc, qpool, qstate>>

(***************************************************************************)
(* Strings: characters, String.prototype methods, regular expressions      *)
(***************************************************************************)

CharAt(s, i) == SubSeq(s, i, i)

UpperCaseLetters ==
    {"A","B","C","D","E","F","G","H","I","J","K","L","M",
     "N","O","P","Q","R","S","T","U","V","W","X","Y","Z"}

LowerCaseLetters ==
    {"a","b","c","d","e","f","g","h","i","j","k","l","m",
     "n","o","p","q","r","s","t","u","v","w","x","y","z"}

Digits == {"0","1","2","3","4","5","6","7","8","9"}

\* \w of a JavaScript regular expression
WordChars == UpperCaseLetters \cup LowerCaseLetters \cup Digits \cup {"_"}

\* \s of a JavaScript regular expression, and what trim() strips
WhiteSpace == {" ", "\t", "\n", "\r", "\f"}

\* what . of a JavaScript regular expression does not match
LineTerminators == {"\n", "\r"}

LowerChar(c) ==
    IF c \notin UpperCaseLetters THEN c
    ELSE
    CASE c = "A" -> "a" [] c = "B" -> "b" [] c = "C" -> "c" [] c = "D" -> "d"
      [] c = "E" -> "e" [] c = "F" -> "f" [] c = "G" -> "g" [] c = "H" -> "h"
      [] c = "I" -> "i" [] c = "J" -> "j" [] c = "K" -> "k" [] c = "L" -> "l"
      [] c = "M" -> "m" [] c = "N" -> "n" [] c = "O" -> "o" [] c = "P" -> "p"
      [] c = "Q" -> "q" [] c = "R" -> "r" [] c = "S" -> "s" [] c = "T" -> "t"
      [] c = "U" -> "u" [] c = "V" -> "v" [] c = "W" -> "w" [] c = "X" -> "x"
      [] c = "Y" -> "y" [] c = "Z" -> "z" [] OTHER -> c

RECURSIVE ToLowerCase(_)
ToLowerCase(s) ==
    IF Len(s) = 0 THEN ""
    ELSE IF Len(s) = 1 THEN LowerChar(s)
    ELSE LET h == Len(s) \div 2
         IN  ToLowerCase(SubSeq(s, 1, h)) \o ToLowerCase(SubSeq(s, h + 1, Len(s)))

RECURSIVE TrimStart(_)
TrimStart(s) ==
    IF s = "" THEN ""
    ELSE IF CharAt(s, 1) \in WhiteSpace THEN TrimStart(SubSeq(s, 2, Len(s)))
    ELSE s

RECURSIVE TrimEnd(_)
TrimEnd(s) ==
    IF s = "" THEN ""
    ELSE IF CharAt(s, Len(s)) \in WhiteSpace THEN TrimEnd(SubSeq(s, 1, Len(s) - 1))
    ELSE s

Trim(s) == TrimEnd(TrimStart(s))

\* s.includes(w) at position i
StartsAt(s, w, i) ==
    /\ i >= 1
    /\ i + Len(w) - 1 <= Len(s)
    /\ SubSeq(s, i, i + Len(w) - 1) = w

Includes(s, w) == \E i \in 1..Len(s) : StartsAt(s, w, i)

IsWordAt(s, i) == i >= 1 /\ i <= Len(s) /\ CharAt(s, i) \in WordChars

\* \b between positions i-1 and i
BoundaryAt(s, i) == IsWordAt(s, i - 1) # IsWordAt(s, i)

\* \bw\b matches at position i
WordAt(s, w, i) ==
    /\ StartsAt(s, w, i)
    /\ BoundaryAt(s, i)
    /\ BoundaryAt(s, i + Len(w))

\* (s.match(/\bw\b/g) || []).length
CountWord(s, w) == Cardinality({i \in 1..Len(s) : WordAt(s, w, i)})

\* .* can match s[i..j] (the empty range when j < i)
DotStar(s, i, j) == \A k \in i..j : CharAt(s, k) \notin LineTerminators

\* \s* or \s+ can match s[i..j]
AllSpace(s, i, j) == \A k \in i..j : CharAt(s, k) \in WhiteSpace

(***************************************************************************)
(* QueryProtectionService                                                  *)
(***************************************************************************)

DefaultQueryTimeoutMs == 30000
DefaultMaxResultRows == 10000
DefaultMaxQueryLength == 50000

ConfigKeys ==
    {"maxQueryTimeMs", "maxResultRows", "maxQueryLength",
     "enableComplexityCheck", "enableStatementTimeout"}

\* the environment-sourced defaults of the constructor, no DB_* variable set
EnvDefaults ==
    [maxQueryTimeMs |-> DefaultQueryTimeoutMs,
     maxResultRows |-> DefaultMaxResultRows,
     maxQueryLength |-> DefaultMaxQueryLength,
     enableComplexityCheck |-> TRUE,
     enableStatementTimeout |-> TRUE]

DigitValue(c) ==
    CASE c = "0" -> 0 [] c = "1" -> 1 [] c = "2" -> 2 [] c = "3" -> 3
      [] c = "4" -> 4 [] c = "5" -> 5 [] c = "6" -> 6 [] c = "7" -> 7
      [] c = "8" -> 8 [] c = "9" -> 9

\* the value of a string of decimal digits
RECURSIVE DecimalValue(_)
DecimalValue(s) ==
    IF Len(s) = 0 THEN 0
    ELSE 10 * DecimalValue(SubSeq(s, 1, Len(s) - 1)) + DigitValue(CharAt(s, Len(s)))

\* the longest prefix of s made of decimal digits
RECURSIVE DigitPrefix(_)
DigitPrefix(s) ==
    IF Len(s) > 0 /\ CharAt(s, 1) \in Digits
    THEN CharAt(s, 1) \o DigitPrefix(SubSeq(s, 2, Len(s)))
    ELSE ""

NaN == "NaN"

\* parseInt(s): leading white space skipped, an optional sign, then the
\* longest run of decimal digits; NaN when there is none
ParseInt(s) ==
    LET t == TrimStart(s)
        signed == Len(t) > 0 /\ CharAt(t, 1) \in {"+", "-"}
        digits == DigitPrefix(IF signed THEN SubSeq(t, 2, Len(t)) ELSE t)
    IN  IF Len(digits) = 0 THEN NaN
        ELSE IF signed /\ CharAt(t, 1) = "-" THEN 0 - DecimalValue(digits)
        ELSE DecimalValue(digits)

\* process.env: a variable that is not set is held as ""
NoEnv ==
    [DB_QUERY_TIMEOUT_MS |-> "", DB_MAX_RESULT_ROWS |-> "",
     DB_MAX_QUERY_LENGTH |-> "", DB_ENABLE_COMPLEXITY_CHECK |-> "",
     DB_ENABLE_STATEMENT_TIMEOUT |-> ""]

\* process.env.NAME || fallback
EnvOr(value, fallback) == IF value # "" THEN value ELSE fallback

\* the environment-sourced defaults of the constructor under process.env = env
EnvConfig(env) ==
    [maxQueryTimeMs |-> ParseInt(EnvOr(env.DB_QUERY_TIMEOUT_MS, "30000")),
     maxResultRows |-> ParseInt(EnvOr(env.DB_MAX_RESULT_ROWS, "10000")),
     maxQueryLength |-> ParseInt(EnvOr(env.DB_MAX_QUERY_LENGTH, "50000")),
     enableComplexityCheck |-> env.DB_ENABLE_COMPLEXITY_CHECK # "false",
     enableStatementTimeout |-> env.DB_ENABLE_STATEMENT_TIMEOUT # "false"]

\* new QueryProtectionService(override) under process.env = env
ConstructorEnv(env, override) ==
    [k \in ConfigKeys |->
        IF k \in DOMAIN override THEN override[k] ELSE EnvConfig(env)[k]]

\* new QueryProtectionService(override): { ...defaults, ...override }
Constructor(override) ==
    [k \in ConfigKeys |->
        IF k \in DOMAIN override THEN override[k] ELSE EnvDefaults[k]]

\* an allowed result that carries an empty reason
ResultAllowedWithReason(warnings) ==
    IF Len(warnings) > 0
    THEN [allowed |-> TRUE, reason |-> "", warnings |-> warnings]
    ELSE [allowed |-> TRUE, reason |-> ""]

\* a result object: warnings is present only when it is a non-empty array
ResultAllowed(warnings) ==
    IF Len(warnings) > 0
    THEN [allowed |-> TRUE, warnings |-> warnings]
    ELSE [allowed |-> TRUE]

ResultRejected(reason) == [allowed |-> FALSE, reason |-> reason]

HasReason(r) == "reason" \in DOMAIN r
HasWarnings(r) == "warnings" \in DOMAIN r
WarningsOf(r) == IF HasWarnings(r) THEN r.warnings ELSE <<>>

\* (sql.match(/\bselect\b.*\bselect\b/gi) || []).length: a match runs from the
\* first select of a line to the last one of that line
SubqueryCount(sql) ==
    Cardinality({i \in 1..Len(sql) :
        /\ WordAt(sql, "select", i)
        /\ \E j \in (i + 6)..Len(sql) :
              WordAt(sql, "select", j) /\ DotStar(sql, i + 6, j - 1)
        /\ ~ \E h \in 1..(i - 1) :
              WordAt(sql, "select", h) /\ DotStar(sql, h + 6, i - 1)})

\* sql.match(/like\s+['"]%[^%]/gi)
LikeLeadingWildcard(sql) ==
    \E i \in 1..Len(sql) :
        /\ StartsAt(sql, "like", i)
        /\ \E j \in (i + 5)..(Len(sql) - 2) :
              /\ AllSpace(sql, i + 4, j - 1)
              /\ CharAt(sql, j) \in {"'", "\""}
              /\ CharAt(sql, j + 1) = "%"
              /\ CharAt(sql, j + 2) # "%"

IndexDefeatingFunctions ==
    {"lower", "upper", "trim", "substring", "date_trunc", "extract"}

\* sql.match(/\bwhere\b.*\b(lower|upper|trim|substring|date_trunc|extract)\s*\(/gi)
FunctionOnWhereColumn(sql) ==
    \E i \in 1..Len(sql) :
        /\ WordAt(sql, "where", i)
        /\ \E j \in (i + 5)..Len(sql) : \E f \in IndexDefeatingFunctions :
              /\ StartsAt(sql, f, j)
              /\ BoundaryAt(sql, j)
              /\ DotStar(sql, i + 5, j - 1)
              /\ \E k \in (j + Len(f))..Len(sql) :
                    /\ AllSpace(sql, j + Len(f), k - 1)
                    /\ CharAt(sql, k) = "("

ComplexityWarnings(sql) ==
    LET joinCount == CountWord(sql, "join")
        subqueryCount == SubqueryCount(sql)
        unionCount == CountWord(sql, "union")
        w1 == IF joinCount > 5
              THEN <<"Query has " \o ToString(joinCount) \o " JOINs, which may be slow">>
              ELSE <<>>
        w2 == IF subqueryCount > 3
              THEN <<"Query has " \o ToString(subqueryCount)
                        \o " nested subqueries, which may be slow">>
              ELSE <<>>
        w3 == IF unionCount > 2
              THEN <<"Query has " \o ToString(unionCount) \o " UNIONs, which may be slow">>
              ELSE <<>>
        w4 == IF Includes(sql, "distinct") /\ ~Includes(sql, "limit")
              THEN <<"DISTINCT without LIMIT may return many rows">>
              ELSE <<>>
        w5 == IF Includes(sql, "order by") /\ ~Includes(sql, "limit")
              THEN <<"ORDER BY without LIMIT may be slow on large tables">>
              ELSE <<>>
        w6 == IF /\ Includes(sql, "group by")
                 /\ ~Includes(sql, "having")
                 /\ ~Includes(sql, "limit")
              THEN <<"GROUP BY without HAVING or LIMIT may return many rows">>
              ELSE <<>>
        w7 == IF LikeLeadingWildcard(sql)
              THEN <<"LIKE patterns starting with % cannot use indexes">>
              ELSE <<>>
        w8 == IF FunctionOnWhereColumn(sql)
              THEN <<"Functions on WHERE columns may prevent index usage">>
              ELSE <<>>
    IN  w1 \o w2 \o w3 \o w4 \o w5 \o w6 \o w7 \o w8

\* checkQueryComplexity turning its first warning into a rejection
checkQueryComplexityRejecting(sql) ==
    IF Len(ComplexityWarnings(sql)) > 0
    THEN [allowed |-> FALSE, reason |-> ComplexityWarnings(sql)[1]]
    ELSE [allowed |-> TRUE]

checkQueryComplexity(sql) == ResultAllowed(ComplexityWarnings(sql))

largeTables ==
    <<"master_ticketing_groups", "tickets_orders", "tickets_orders_items",
      "master_events">>

MissingWhereWarning ==
    "Query on large table without WHERE clause - ensure LIMIT is reasonable"

\* the rejection text cut before its warning of the row volume
MissingWhereReasonTerse ==
    "Query targets large table without WHERE clause and no LIMIT."

MissingWhereReason ==
    "Query targets large table without WHERE clause and no LIMIT. This could return millions of rows."

checkMissingWhereClause(sql) ==
    LET targetsLargeTable ==
            \E t \in 1..Len(largeTables) :
                Includes(sql, largeTables[t]) /\ ~Includes(sql, "where")
    IN  IF targetsLargeTable
        THEN IF Includes(sql, "limit")
             THEN [allowed |-> TRUE, warnings |-> <<MissingWhereWarning>>]
             ELSE ResultRejected(MissingWhereReason)
        ELSE [allowed |-> TRUE]

\* sql.match(/\bjoin\b.*\bon\b/gi)
HasJoinOn(sql) ==
    \E i \in 1..Len(sql) :
        /\ WordAt(sql, "join", i)
        /\ \E j \in (i + 4)..Len(sql) :
              WordAt(sql, "on", j) /\ DotStar(sql, i + 4, j - 1)

\* sql.match(/\bwhere\b.*\b=\b.*\b=/gi)
HasWhereEquality(sql) ==
    \E i \in 1..Len(sql) :
        /\ WordAt(sql, "where", i)
        /\ \E p \in (i + 5)..Len(sql) :
              /\ CharAt(sql, p) = "="
              /\ BoundaryAt(sql, p)
              /\ BoundaryAt(sql, p + 1)
              /\ DotStar(sql, i + 5, p - 1)
              /\ \E q \in (p + 1)..Len(sql) :
                    /\ CharAt(sql, q) = "="
                    /\ BoundaryAt(sql, q)
                    /\ DotStar(sql, p + 1, q - 1)

CartesianReason ==
    "Query appears to create a cartesian product (multiple tables without JOIN conditions)"

\* the cartesian check counting one table for the FROM clauses altogether
checkCartesianProductOneFrom(sql) ==
    LET fromCount == IF CountWord(sql, "from") > 0 THEN 1 ELSE 0
        joinCount == CountWord(sql, "join")
        totalTables == fromCount + joinCount
        hasJoinCondition == HasJoinOn(sql) \/ HasWhereEquality(sql)
    IN  IF totalTables > 1 /\ ~hasJoinCondition
        THEN ResultRejected(CartesianReason)
        ELSE [allowed |-> TRUE]

checkCartesianProduct(sql) ==
    LET fromCount == CountWord(sql, "from")
        joinCount == CountWord(sql, "join")
        totalTables == fromCount + joinCount
        hasJoinCondition == HasJoinOn(sql) \/ HasWhereEquality(sql)
    IN  IF totalTables > 1 /\ ~hasJoinCondition
        THEN ResultRejected(CartesianReason)
        ELSE [allowed |-> TRUE]

LengthReason(cfg, sql) ==
    "Query exceeds maximum length of " \o ToString(cfg.maxQueryLength)
        \o " characters (" \o ToString(Len(sql)) \o " chars)"

\* validateQuery running the cartesian check before the missing-predicate
\* check, and both before the length check
validateQueryCartesianFirst(cfg, sql, params) ==
    LET normalizedSql == ToLowerCase(Trim(sql))
        complexityCheck ==
            IF cfg.enableComplexityCheck
            THEN checkQueryComplexity(normalizedSql)
            ELSE [allowed |-> TRUE]
        missingWhereCheck == checkMissingWhereClause(normalizedSql)
        cartesianCheck == checkCartesianProduct(normalizedSql)
    IN  IF ~cartesianCheck.allowed THEN cartesianCheck
        ELSE IF ~missingWhereCheck.allowed THEN missingWhereCheck
        ELSE IF Len(sql) > cfg.maxQueryLength
        THEN ResultRejected(LengthReason(cfg, sql))
        ELSE ResultAllowed(WarningsOf(complexityCheck)
                           \o WarningsOf(missingWhereCheck)
                           \o WarningsOf(cartesianCheck))

\* validateQuery with the length test made on the trimmed text
validateQueryTrimmedLength(cfg, sql, params) ==
    LET normalizedSql == ToLowerCase(Trim(sql))
        complexityCheck ==
            IF cfg.enableComplexityCheck
            THEN checkQueryComplexity(normalizedSql)
            ELSE [allowed |-> TRUE]
        missingWhereCheck == checkMissingWhereClause(normalizedSql)
        cartesianCheck == checkCartesianProduct(normalizedSql)
    IN  IF Len(normalizedSql) > cfg.maxQueryLength
        THEN ResultRejected(LengthReason(cfg, normalizedSql))
        ELSE IF ~complexityCheck.allowed THEN complexityCheck
        ELSE IF ~missingWhereCheck.allowed THEN missingWhereCheck
        ELSE IF ~cartesianCheck.allowed THEN cartesianCheck
        ELSE ResultAllowed(WarningsOf(complexityCheck)
                           \o WarningsOf(missingWhereCheck)
                           \o WarningsOf(cartesianCheck))

\* validateQuery matching its patterns on the trimmed text as written,
\* without lower-casing it
validateQueryCaseSensitive(cfg, sql, params) ==
    LET normalizedSql == Trim(sql)
        complexityCheck ==
            IF cfg.enableComplexityCheck
            THEN checkQueryComplexity(normalizedSql)
            ELSE [allowed |-> TRUE]
        missingWhereCheck == checkMissingWhereClause(normalizedSql)
        cartesianCheck == checkCartesianProduct(normalizedSql)
    IN  IF Len(sql) > cfg.maxQueryLength
        THEN ResultRejected(LengthReason(cfg, sql))
        ELSE IF ~complexityCheck.allowed THEN complexityCheck
        ELSE IF ~missingWhereCheck.allowed THEN missingWhereCheck
        ELSE IF ~cartesianCheck.allowed THEN cartesianCheck
        ELSE ResultAllowed(WarningsOf(complexityCheck)
                           \o WarningsOf(missingWhereCheck)
                           \o WarningsOf(cartesianCheck))

\* validateQuery handing the warnings collected so far along with a rejection
validateQueryKeepsWarnings(cfg, sql, params) ==
    LET normalizedSql == ToLowerCase(Trim(sql))
        complexityCheck ==
            IF cfg.enableComplexityCheck
            THEN checkQueryComplexity(normalizedSql)
            ELSE [allowed |-> TRUE]
        missingWhereCheck == checkMissingWhereClause(normalizedSql)
        cartesianCheck == checkCartesianProduct(normalizedSql)
        rejectedWith(check, warnings) ==
            IF warnings = <<>> THEN check
            ELSE [allowed |-> FALSE, reason |-> check.reason,
                  warnings |-> warnings]
    IN  IF Len(sql) > cfg.maxQueryLength
        THEN ResultRejected(LengthReason(cfg, sql))
        ELSE IF ~complexityCheck.allowed THEN complexityCheck
        ELSE IF ~missingWhereCheck.allowed
        THEN rejectedWith(missingWhereCheck, WarningsOf(complexityCheck))
        ELSE IF ~cartesianCheck.allowed
        THEN rejectedWith(cartesianCheck,
                          WarningsOf(complexityCheck)
                          \o WarningsOf(missingWhereCheck))
        ELSE ResultAllowed(WarningsOf(complexityCheck)
                           \o WarningsOf(missingWhereCheck)
                           \o WarningsOf(cartesianCheck))

\* validateQuery(sql, params) of a service whose config is cfg
validateQuery(cfg, sql, params) ==
    LET normalizedSql == ToLowerCase(Trim(sql))
        complexityCheck ==
            IF cfg.enableComplexityCheck
            THEN checkQueryComplexity(normalizedSql)
            ELSE [allowed |-> TRUE]
        missingWhereCheck == checkMissingWhereClause(normalizedSql)
        cartesianCheck == checkCartesianProduct(normalizedSql)
    IN  IF Len(sql) > cfg.maxQueryLength
        THEN ResultRejected(LengthReason(cfg, sql))
        ELSE IF ~complexityCheck.allowed THEN complexityCheck
        ELSE IF ~missingWhereCheck.allowed THEN missingWhereCheck
        ELSE IF ~cartesianCheck.allowed THEN cartesianCheck
        ELSE ResultAllowed(WarningsOf(complexityCheck)
                           \o WarningsOf(missingWhereCheck)
                           \o WarningsOf(cartesianCheck))

\* getStatementTimeoutSql()
getStatementTimeoutSql(cfg) ==
    IF ~cfg.enableStatementTimeout THEN ""
    ELSE "SET LOCAL statement_timeout = " \o ToString(cfg.maxQueryTimeMs) \o ";"

\* results.slice(0, end)
Slice0(results, end) ==
    LET n == Len(results)
        e == IF end < 0 THEN (IF n + end < 0 THEN 0 ELSE n + end)
             ELSE (IF end > n THEN n ELSE end)
    IN  SubSeq(results, 1, e)

\* limitResults keeping one row too many
limitResultsOffByOne(cfg, results, maxRows) ==
    LET limit == IF maxRows # 0 THEN maxRows ELSE cfg.maxResultRows
    IN  IF Len(results) > limit THEN Slice0(results, limit + 1) ELSE results

\* limitResults(results, maxRows); maxRows = 0 stands for every falsy argument
\* (undefined, 0), which `maxRows || config.maxResultRows` replaces alike
limitResults(cfg, results, maxRows) ==
    LET limit == IF maxRows # 0 THEN maxRows ELSE cfg.maxResultRows
    IN  IF Len(results) > limit THEN Slice0(results, limit) ELSE results

\* the console.warn of limitResults
limitResultsWarning(cfg, results, maxRows) ==
    LET limit == IF maxRows # 0 THEN maxRows ELSE cfg.maxResultRows
    IN  IF Len(results) > limit
        THEN <<"Result set truncated from " \o ToString(Len(results)) \o " to "
                  \o ToString(limit) \o " rows">>
        ELSE <<>>

(***************************************************************************)
(* Validator run: validateQuery applied to a statement text                *)
(***************************************************************************)

MaxPad == 1
MaxValidateCalls == 2
MaxOtherCalls == 1
SmallMaxQueryLength == 30

RECURSIVE Spaces(_)
Spaces(n) == IF n = 0 THEN "" ELSE " " \o Spaces(n - 1)

SelectParts == {"SELECT *", "SELECT ticket_limit", "SELECT nowhere"}

FromParts ==
    {" FROM a", " FROM a, b", " FROM master_events",
     " FROM master_events me, master_ticketing_groups mtg"}

JoinParts ==
    {"", " JOIN b", " JOIN b ON a.id = b.id", " JOIN b\nON a.id = b.id"}

WhereParts ==
    {"", " WHERE a.id = 1", " WHERE a.x=b.x AND a.y=b.y",
     " WHERE id IN (SELECT id FROM c)"}

LimitParts == {"", " LIMIT 5"}

\* padding of pad n: n leading spaces and, when n > 0, a trailing newline
LeadPad(n) == Spaces(n)
TrailPad(n) == IF n > 0 THEN "\n" ELSE ""

\* SELECT * with every combination of the clauses
ClauseInputs ==
    {"SELECT *" \o frm \o jn \o wh \o lim :
        frm \in FromParts, jn \in JoinParts, wh \in WhereParts,
        lim \in LimitParts}

\* a protected table read through each select list, with and without LIMIT
ColumnInputs ==
    {sel \o " FROM master_events" \o lim :
        sel \in SelectParts, lim \in LimitParts}

\* scalar subqueries: four and three levels on one line, and two levels on
\* each of four and of three lines
SubqueryParts ==
    {"SELECT (SELECT (SELECT (SELECT (SELECT 1))))",
     "SELECT (SELECT (SELECT (SELECT 1)))",
     "SELECT (SELECT 1),\n(SELECT (SELECT 2)),\n(SELECT (SELECT 3)),\n(SELECT (SELECT 4))",
     "SELECT (SELECT 1),\n(SELECT (SELECT 2)),\n(SELECT (SELECT 3))"}

\* the statements that are also validated with padding around them: one for
\* each way validateQuery can answer
PaddedParts ==
    {"SELECT * FROM a WHERE a.id = 1",
     "SELECT * FROM master_events",
     "SELECT * FROM master_events LIMIT 5",
     "SELECT * FROM a JOIN b",
     "SELECT * FROM a JOIN b\nON a.id = b.id",
     "SELECT (SELECT 1),\n(SELECT (SELECT 2)),\n(SELECT (SELECT 3)),\n(SELECT (SELECT 4))"}

PaddedInputs ==
    {LeadPad(n) \o q \o TrailPad(n) : n \in 1..MaxPad, q \in PaddedParts}

\* statements the complexity check warns about: two that a later check
\* rejects and one that passes
WarnedParts ==
    {"SELECT DISTINCT * FROM master_events",
     "SELECT * FROM a JOIN b ORDER BY a.x",
     "SELECT * FROM a WHERE a.id = 1 ORDER BY a.x"}

SqlInputs ==
    ClauseInputs \cup ColumnInputs \cup SubqueryParts \cup PaddedInputs
        \cup WarnedParts

ParamInputs == {<<>>, <<1>>}

OtherInputs == {"SELECT * FROM master_events", "SELECT * FROM a, b LIMIT 5"}

ValidatorConfigs ==
    {Constructor([maxQueryLength |-> len, enableComplexityCheck |-> cc]) :
        len \in {SmallMaxQueryLength, DefaultMaxQueryLength}, cc \in BOOLEAN}

NoResult == [none |-> TRUE]

(***************************************************************************)
(* Construction run: a service built from process.env and an override,     *)
(* then used to validate                                                   *)
(***************************************************************************)

\* values of the DB_* variables; every numeric one parses to a number
EnvInputs ==
    {[NoEnv EXCEPT !.DB_QUERY_TIMEOUT_MS = t, !.DB_MAX_RESULT_ROWS = r,
                   !.DB_MAX_QUERY_LENGTH = l, !.DB_ENABLE_COMPLEXITY_CHECK = c] :
        t \in {"", "0", "-5", " 12px", "60000"}, r \in {"", "-1"},
        l \in {"", "0", "25"}, c \in {"", "false"}}

\* the Partial<QueryProtectionConfig> handed to the constructor
OverrideInputs ==
    {<<>>,
     [maxQueryTimeMs |-> 0],
     [maxQueryTimeMs |-> 0 - 1],
     [maxResultRows |-> 0 - 1],
     [maxQueryLength |-> 0 - 1],
     [maxQueryTimeMs |-> 60000, maxResultRows |-> 50000]}

ConstructedConfigs ==
    {ConstructorEnv(env, override) : env \in EnvInputs, override \in OverrideInputs}

ConstructionStatements ==
    {"SELECT 1", "SELECT * FROM master_events", "SELECT * FROM a JOIN b"}

(***************************************************************************)
(* Guarded query(): state of one call per caller                           *)
(***************************************************************************)

MaxDriverRows == 3
SmallMaxResultRows == 2
TickMs == 2500
SlowQueryThresholdMs == 5000

Callers == {"caller1", "caller2"}

\* the wall-clock ceiling of the guard runs, and how far their clocks run
GuardTimeoutMs == 3 * TickMs
MaxElapsedMs == GuardTimeoutMs

GuardStatements ==
    {"SELECT * FROM a WHERE a.id = 1",
     "SELECT * FROM master_events",
     "SELECT * FROM master_events LIMIT 5"}

GuardConfigs ==
    {Constructor([maxQueryTimeMs |-> GuardTimeoutMs,
                  maxResultRows |-> SmallMaxResultRows,
                  enableStatementTimeout |-> st]) : st \in BOOLEAN}

\* the clients of the shared pool
Connections == {"conn1", "conn2"}

NoConnection == "none"

\* messages of the errors pool.query rejects with
DriverMessages ==
    {"Connection terminated unexpectedly", "relation \"nosuch\" does not exist"}

\* the driver's rows for a statement: n rows, told apart by their position
Rows(n) == [i \in 1..n |-> i]

NoOutcome == [kind |-> "none"]

ValidatorIdle ==
    /\ vsql = ""
    /\ vparams = <<>>
    /\ vres = NoResult
    /\ vprev = NoResult
    /\ vcalls = 0
    /\ vothers = 0

GuardIdle ==
    /\ pc = [c \in Callers |-> "idle"]
    /\ csql = [c \in Callers |-> ""]
    /\ validation = [c \in Callers |-> NoResult]
    /\ driver = [c \in Callers |-> "none"]
    /\ driverRows = [c \in Callers |-> <<>>]
    /\ driverMessage = [c \in Callers |-> ""]
    /\ timer = [c \in Callers |-> "none"]
    /\ elapsed = [c \in Callers |-> 0]
    /\ outcome = [c \in Callers |-> NoOutcome]
    /\ driverCalls = [c \in Callers |-> <<>>]
    /\ ceiling = [c \in Callers |-> "none"]
    /\ logged = [c \in Callers |-> <<>>]
    /\ conn = [c \in Callers |-> NoConnection]
    /\ ceilingConn = [c \in Callers |-> NoConnection]

\* getConfig() not called yet
NoConfig == [returned |-> FALSE]

\* limitResults and getStatementTimeoutSql not called yet
NoReturn == [op |-> "none"]

ServiceIdle ==
    /\ got = NoConfig
    /\ gotShared = FALSE
    /\ sret = NoReturn
    /\ scalls = 0

MaxPools == 3

\* the Pool objects a run can construct
Pools == 1..MaxPools

\* let pool: Pool | null = null
NoPool == 0

PoolIdle ==
    /\ pool = NoPool
    /\ poolState = [i \in Pools |-> "none"]
    /\ ppc = [c \in Callers |-> "idle"]
    /\ qpool = [c \in Callers |-> NoPool]
    /\ qstate = [c \in Callers |-> "none"]

\* validator run: a service and the arguments of the calls to come
InitV ==
    /\ config \in ValidatorConfigs
    /\ vsql \in SqlInputs
    /\ vparams \in ParamInputs
    /\ vres = NoResult
    /\ vprev = NoResult
    /\ vcalls = 0
    /\ vothers = 0
    /\ GuardIdle
    /\ ServiceIdle
    /\ PoolIdle

\* construction run: a service as its constructor left it
InitC ==
    /\ config \in ConstructedConfigs
    /\ vsql \in ConstructionStatements
    /\ vparams = <<>>
    /\ vres = NoResult
    /\ vprev = NoResult
    /\ vcalls = 0
    /\ vothers = 0
    /\ GuardIdle
    /\ ServiceIdle
    /\ PoolIdle

\* validateQuery collecting its warnings in an array shared by all calls
ValidateCallSharedWarnings ==
    LET r == validateQuery(config, vsql, vparams)
    IN  /\ vcalls < MaxValidateCalls
        /\ vprev' = vres
        /\ vres' = IF r.allowed /\ vcalls > 0
                   THEN ResultAllowed(WarningsOf(vres) \o WarningsOf(r))
                   ELSE r
        /\ vcalls' = vcalls + 1
        /\ UNCHANGED <<config, vsql, vparams, vothers>>
        /\ UNCHANGED <<gvars, svars, pvars>>

\* queryProtection.validateQuery(vsql, vparams)
ValidateCall ==
    /\ vcalls < MaxValidateCalls
    /\ vprev' = vres
    /\ vres' = validateQuery(config, vsql, vparams)
    /\ vcalls' = vcalls + 1
    /\ UNCHANGED <<config, vsql, vparams, vothers>>
    /\ UNCHANGED <<gvars, svars, pvars>>

\* queryProtection.validateQuery(s) by another caller; the result is not kept
ValidateOther(s) ==
    /\ vothers < MaxOtherCalls
    /\ validateQuery(config, s, <<>>).allowed \in BOOLEAN
    /\ vothers' = vothers + 1
    /\ UNCHANGED <<config, vsql, vparams, vres, vprev, vcalls>>
    /\ UNCHANGED <<gvars, svars, pvars>>

NextV ==
    \/ ValidateCall
    \/ \E s \in OtherInputs : ValidateOther(s)

SpecV == InitV /\ [][NextV]_vars

SpecC == InitC /\ [][NextV]_vars

(***************************************************************************)
(* Service run: calls of every public method on one service, and writes    *)
(* to the object getConfig() returned                                      *)
(***************************************************************************)

MaxServiceCalls == 3

\* the maxRows arguments of limitResults; 0 stands for an omitted argument
MaxRowsInputs == {0, 1}

\* writes a caller makes to the object it got from getConfig()
ConfigWrites ==
    {<<"maxResultRows", 1>>, <<"maxQueryLength", 0>>,
     <<"enableStatementTimeout", FALSE>>}

InitS ==
    /\ config \in ValidatorConfigs \cup GuardConfigs
    /\ vsql \in ConstructionStatements
    /\ vparams = <<>>
    /\ vres = NoResult
    /\ vprev = NoResult
    /\ vcalls = 0
    /\ vothers = 0
    /\ GuardIdle
    /\ ServiceIdle
    /\ PoolIdle

\* queryProtection.limitResults(rows of length n, maxRows)
LimitResultsCall(n, maxRows) ==
    /\ scalls < MaxServiceCalls
    /\ sret' = [op |-> "limitResults", n |-> n, maxRows |-> maxRows,
                value |-> limitResults(config, Rows(n), maxRows)]
    /\ scalls' = scalls + 1
    /\ UNCHANGED <<config, got, gotShared>>
    /\ UNCHANGED <<vvars, gvars, pvars>>

\* queryProtection.getStatementTimeoutSql()
GetStatementTimeoutSqlCall ==
    /\ scalls < MaxServiceCalls
    /\ sret' = [op |-> "getStatementTimeoutSql",
                value |-> getStatementTimeoutSql(config)]
    /\ scalls' = scalls + 1
    /\ UNCHANGED <<config, got, gotShared>>
    /\ UNCHANGED <<vvars, gvars, pvars>>

\* the object a getConfig() call returns
getConfig(cfg) == [k \in DOMAIN cfg |-> cfg[k]]

\* a getConfig() that returns this.config itself
GetConfigCallByReference ==
    /\ scalls < MaxServiceCalls
    /\ got' = config
    /\ gotShared' = TRUE
    /\ scalls' = scalls + 1
    /\ UNCHANGED <<config, sret>>
    /\ UNCHANGED <<vvars, gvars, pvars>>

\* queryProtection.getConfig(): a fresh object with the fields of this.config
GetConfigCall ==
    /\ scalls < MaxServiceCalls
    /\ got' = getConfig(config)
    /\ gotShared' = FALSE
    /\ scalls' = scalls + 1
    /\ UNCHANGED <<config, sret>>
    /\ UNCHANGED <<vvars, gvars, pvars>>

\* the caller assigns to a field of the object getConfig() returned; the
\* write lands in every reference to that object
WriteReturnedConfig(k, value) ==
    /\ got # NoConfig
    /\ got[k] # value
    /\ got' = [got EXCEPT ![k] = value]
    /\ config' = IF gotShared THEN [config EXCEPT ![k] = value] ELSE config
    /\ UNCHANGED <<gotShared, sret, scalls>>
    /\ UNCHANGED <<vvars, gvars, pvars>>

NextS ==
    \/ ValidateCall
    \/ \E n \in 0..MaxDriverRows, maxRows \in MaxRowsInputs :
          LimitResultsCall(n, maxRows)
    \/ GetStatementTimeoutSqlCall
    \/ GetConfigCall
    \/ \E w \in ConfigWrites : WriteReturnedConfig(w[1], w[2])

SpecS == InitS /\ [][NextS]_vars

(***************************************************************************)
(* Pool run: getPool(), query() and closePool() of database.ts called by   *)
(* concurrent callers                                                      *)
(***************************************************************************)

InitP ==
    /\ config = Constructor(<<>>)
    /\ ValidatorIdle
    /\ GuardIdle
    /\ ServiceIdle
    /\ PoolIdle

\* the Pool object new Pool({...}) constructs next
NewPool == CHOOSE i \in Pools : poolState[i] = "none" /\ \A j \in 1..(i - 1) : poolState[j] # "none"

\* getPool() can run: a pool is held, or one more can be constructed
CanGetPool == pool # NoPool \/ \E i \in Pools : poolState[i] = "none"

\* getPool(): what it returns
getPool == IF pool = NoPool THEN NewPool ELSE pool

\* getPool(): what it leaves in the Pool objects
getPoolState ==
    IF pool = NoPool THEN [poolState EXCEPT ![NewPool] = "open"] ELSE poolState

\* a caller calls getPool() and keeps what it returns
GetPoolCall(c) ==
    /\ ppc[c] = "idle"
    /\ CanGetPool
    /\ qpool[c] # getPool
    /\ pool' = getPool
    /\ poolState' = getPoolState
    /\ qpool' = [qpool EXCEPT ![c] = getPool]
    /\ qstate' = [qstate EXCEPT ![c] = getPoolState[getPool]]
    /\ UNCHANGED ppc
    /\ UNCHANGED <<config, vvars, gvars, svars>>

\* query(text, params) up to its await: getPool(), then pool.query
QueryCall(c) ==
    /\ ppc[c] = "idle"
    /\ CanGetPool
    /\ pool' = getPool
    /\ poolState' = getPoolState
    /\ qpool' = [qpool EXCEPT ![c] = getPool]
    /\ qstate' = [qstate EXCEPT ![c] = getPoolState[getPool]]
    /\ ppc' = [ppc EXCEPT ![c] = "querying"]
    /\ UNCHANGED <<config, vvars, gvars, svars>>

\* pool.query settles and query() returns or throws
QuerySettle(c) ==
    /\ ppc[c] = "querying"
    /\ ppc' = [ppc EXCEPT ![c] = "idle"]
    /\ qpool' = [qpool EXCEPT ![c] = NoPool]
    /\ qstate' = [qstate EXCEPT ![c] = "none"]
    /\ UNCHANGED <<pool, poolState>>
    /\ UNCHANGED <<config, vvars, gvars, svars>>

\* closePool() up to its await: with a pool held it calls pool.end(); with
\* none it returns at once
ClosePoolCall(c) ==
    /\ ppc[c] = "idle"
    /\ IF pool # NoPool
       THEN /\ poolState' = [poolState EXCEPT ![pool] = "ending"]
            /\ ppc' = [ppc EXCEPT ![c] = "closing"]
            /\ qpool' = [qpool EXCEPT ![c] = pool]
            /\ qstate' = [qstate EXCEPT ![c] = "none"]
       ELSE UNCHANGED <<poolState, ppc, qpool, qstate>>
    /\ UNCHANGED pool
    /\ UNCHANGED <<config, vvars, gvars, svars>>

\* closePool() after its await: pool.end() resolved, pool = null
ClosePoolResume(c) ==
    /\ ppc[c] = "closing"
    /\ poolState' = [poolState EXCEPT ![qpool[c]] = "ended"]
    /\ pool' = NoPool
    /\ ppc' = [ppc EXCEPT ![c] = "idle"]
    /\ qpool' = [qpool EXCEPT ![c] = NoPool]
    /\ UNCHANGED qstate
    /\ UNCHANGED <<config, vvars, gvars, svars>>

\* closePool() after its await: pool.end() rejected, closePool() throws and
\* the assignment is not reached
ClosePoolThrows(c) ==
    /\ ppc[c] = "closing"
    /\ ppc' = [ppc EXCEPT ![c] = "idle"]
    /\ qpool' = [qpool EXCEPT ![c] = NoPool]
    /\ UNCHANGED <<pool, poolState, qstate>>
    /\ UNCHANGED <<config, vvars, gvars, svars>>

NextP ==
    \/ \E c \in Callers : GetPoolCall(c)
    \/ \E c \in Callers : QueryCall(c)
    \/ \E c \in Callers : QuerySettle(c)
    \/ \E c \in Callers : ClosePoolCall(c)
    \/ \E c \in Callers : ClosePoolResume(c)
    \/ \E c \in Callers : ClosePoolThrows(c)

SpecP == InitP /\ [][NextP]_vars

(***************************************************************************)
(* Guarded query(sql, params): validate, install the session ceiling,      *)
(* race the driver call against the timeout timer, truncate                *)
(***************************************************************************)

Init ==
    /\ config \in GuardConfigs
    /\ ValidatorIdle
    /\ GuardIdle
    /\ ServiceIdle
    /\ PoolIdle

ValidationRejected(reason) == [kind |-> "ValidationRejected", reason |-> reason]

ExecutionTimeout(ms) == [kind |-> "ExecutionTimeout", ms |-> ms]

DriverError(message) == [kind |-> "DriverError", message |-> message]

\* an oversized result set surfaced as an error instead of a truncated success
GuardedOutcomeOversizeError(cfg, v, rows, executionTimeMs) ==
    IF Len(rows) > cfg.maxResultRows
    THEN [kind |-> "ResultTruncated", rowCount |-> Len(rows)]
    ELSE [kind |-> "Success",
          rows |-> rows,
          rowCount |-> Len(rows),
          warnings |-> WarningsOf(v),
          truncated |-> FALSE,
          executionTimeMs |-> executionTimeMs]

\* the outcome with the driver's row count passed through
GuardedOutcomeDriverCount(cfg, v, rows, executionTimeMs) ==
    LET limited == limitResults(cfg, rows, 0)
    IN  [kind |-> "Success",
         rows |-> limited,
         rowCount |-> Len(rows),
         warnings |-> WarningsOf(v),
         truncated |-> Len(rows) > cfg.maxResultRows,
         executionTimeMs |-> executionTimeMs]

\* steps 5 to 7: the outcome of a call whose driver call won the race
GuardedOutcome(cfg, v, rows, executionTimeMs) ==
    LET limited == limitResults(cfg, rows, 0)
    IN  [kind |-> "Success",
         rows |-> limited,
         rowCount |-> Len(limited),
         warnings |-> WarningsOf(v),
         truncated |-> Len(rows) > cfg.maxResultRows,
         executionTimeMs |-> executionTimeMs]

\* a slow-query log entry for every execution time from the threshold on
SlowQueryLogAtThreshold(sql, params, executionTimeMs) ==
    IF executionTimeMs >= SlowQueryThresholdMs
    THEN <<[event |-> "slow query", ms |-> executionTimeMs,
            params |-> Len(params)]>>
    ELSE <<>>

\* step 5: the slow-query log entry
SlowQueryLog(sql, params, executionTimeMs) ==
    IF executionTimeMs > SlowQueryThresholdMs
    THEN <<[event |-> "slow query", ms |-> executionTimeMs,
            params |-> Len(params)]>>
    ELSE <<>>

\* step 2: the validation warnings handed to the logging sink
WarningsLog(v) ==
    IF HasWarnings(v) THEN <<[event |-> "query warnings", warnings |-> v.warnings]>>
    ELSE <<>>

TruncationLog(cfg, rows) ==
    LET w == limitResultsWarning(cfg, rows, 0)
    IN  IF Len(w) > 0 THEN <<[event |-> "truncated", message |-> w[1]]>> ELSE <<>>

\* the clients of the pool that no statement is running on
IdleConnections == Connections \ {conn[c] : c \in Callers}

\* query() installing the session ceiling before it validates
QueryCeilingBeforeValidation(c, sql, params, installed) ==
    LET v == validateQuery(config, sql, params)
        timeoutSql == getStatementTimeoutSql(config)
        ceilingCalls == IF timeoutSql # "" THEN <<timeoutSql>> ELSE <<>>
    IN  /\ pc[c] = "idle"
        /\ csql' = [csql EXCEPT ![c] = sql]
        /\ validation' = [validation EXCEPT ![c] = v]
        /\ ceiling' = [ceiling EXCEPT
              ![c] = IF timeoutSql = "" THEN "none"
                     ELSE IF installed THEN "installed" ELSE "failed"]
        /\ timeoutSql = "" => installed
        /\ IF timeoutSql = "" THEN UNCHANGED ceilingConn
           ELSE \E k \in IdleConnections :
                    ceilingConn' = [ceilingConn EXCEPT ![c] = k]
        /\ IF ~v.allowed
           THEN /\ outcome' = [outcome EXCEPT ![c] = ValidationRejected(v.reason)]
                /\ pc' = [pc EXCEPT ![c] = "done"]
                /\ driverCalls' = [driverCalls EXCEPT ![c] = @ \o ceilingCalls]
                /\ UNCHANGED <<driver, timer, logged, conn>>
           ELSE /\ logged' = [logged EXCEPT ![c] = @ \o WarningsLog(v)]
                /\ \E k \in IdleConnections : conn' = [conn EXCEPT ![c] = k]
                /\ driverCalls' =
                      [driverCalls EXCEPT ![c] = @ \o ceilingCalls \o <<sql>>]
                /\ driver' = [driver EXCEPT ![c] = "pending"]
                /\ timer' = [timer EXCEPT ![c] = "armed"]
                /\ pc' = [pc EXCEPT ![c] = "racing"]
                /\ UNCHANGED outcome
        /\ UNCHANGED <<config, elapsed, driverRows, driverMessage>>
        /\ UNCHANGED <<vvars, svars, pvars>>

\* query() on a guard that keeps its warnings in one array shared by all
\* calls: the verdict of a call carries the warnings of the calls before it
QuerySharedWarnings(c, sql, params, installed) ==
    LET own == validateQuery(config, sql, params)
        others == CHOOSE d \in Callers : d # c
        v == IF own.allowed /\ HasWarnings(validation[others])
             THEN ResultAllowed(WarningsOf(validation[others]) \o WarningsOf(own))
             ELSE own
        timeoutSql == getStatementTimeoutSql(config)
    IN  /\ pc[c] = "idle"
        /\ csql' = [csql EXCEPT ![c] = sql]
        /\ validation' = [validation EXCEPT ![c] = v]
        /\ IF ~v.allowed
           THEN /\ outcome' = [outcome EXCEPT ![c] = ValidationRejected(v.reason)]
                /\ pc' = [pc EXCEPT ![c] = "done"]
                /\ UNCHANGED <<driver, timer, driverCalls, ceiling, logged,
                               conn, ceilingConn>>
           ELSE /\ logged' = [logged EXCEPT ![c] = @ \o WarningsLog(v)]
                /\ IF timeoutSql # ""
                   THEN /\ driverCalls' =
                              [driverCalls EXCEPT ![c] = @ \o <<timeoutSql, sql>>]
                        /\ ceiling' = [ceiling EXCEPT
                              ![c] = IF installed THEN "installed" ELSE "failed"]
                        /\ \E k \in IdleConnections :
                              ceilingConn' = [ceilingConn EXCEPT ![c] = k]
                   ELSE /\ driverCalls' = [driverCalls EXCEPT ![c] = @ \o <<sql>>]
                        /\ installed
                        /\ UNCHANGED <<ceiling, ceilingConn>>
                /\ \E k \in IdleConnections : conn' = [conn EXCEPT ![c] = k]
                /\ driver' = [driver EXCEPT ![c] = "pending"]
                /\ timer' = [timer EXCEPT ![c] = "armed"]
                /\ pc' = [pc EXCEPT ![c] = "racing"]
                /\ UNCHANGED outcome
        /\ UNCHANGED <<config, elapsed, driverRows, driverMessage>>
        /\ UNCHANGED <<vvars, svars, pvars>>

\* query() yielding to other callers once it has validated, before it logs
\* the warnings and installs the session ceiling
QuerySuspendsAfterValidation(c, sql, params, installed) ==
    LET v == validateQuery(config, sql, params)
    IN  /\ pc[c] = "idle"
        /\ installed
        /\ csql' = [csql EXCEPT ![c] = sql]
        /\ validation' = [validation EXCEPT ![c] = v]
        /\ IF ~v.allowed
           THEN /\ outcome' = [outcome EXCEPT ![c] = ValidationRejected(v.reason)]
                /\ pc' = [pc EXCEPT ![c] = "done"]
           ELSE /\ pc' = [pc EXCEPT ![c] = "validated"]
                /\ UNCHANGED outcome
        /\ UNCHANGED <<driver, timer, driverCalls, ceiling, logged, conn,
                       ceilingConn>>
        /\ UNCHANGED <<config, elapsed, driverRows, driverMessage>>
        /\ UNCHANGED <<vvars, svars, pvars>>

\* query() failing the call when the session ceiling cannot be installed
QueryInstallFailureThrows(c, sql, params, installed) ==
    LET v == validateQuery(config, sql, params)
        timeoutSql == getStatementTimeoutSql(config)
    IN  /\ pc[c] = "idle"
        /\ csql' = [csql EXCEPT ![c] = sql]
        /\ validation' = [validation EXCEPT ![c] = v]
        /\ timeoutSql = "" => installed
        /\ IF ~v.allowed
           THEN /\ outcome' = [outcome EXCEPT ![c] = ValidationRejected(v.reason)]
                /\ pc' = [pc EXCEPT ![c] = "done"]
                /\ UNCHANGED <<driver, timer, driverCalls, ceiling, logged,
                               conn, ceilingConn>>
           ELSE IF ~installed
           THEN /\ logged' = [logged EXCEPT ![c] = @ \o WarningsLog(v)]
                /\ driverCalls' = [driverCalls EXCEPT ![c] = @ \o <<timeoutSql>>]
                /\ ceiling' = [ceiling EXCEPT ![c] = "failed"]
                /\ outcome' = [outcome EXCEPT
                      ![c] = DriverError("could not set statement_timeout")]
                /\ pc' = [pc EXCEPT ![c] = "done"]
                /\ UNCHANGED <<driver, timer, conn, ceilingConn>>
           ELSE /\ logged' = [logged EXCEPT ![c] = @ \o WarningsLog(v)]
                /\ IF timeoutSql # ""
                   THEN /\ driverCalls' =
                              [driverCalls EXCEPT ![c] = @ \o <<timeoutSql, sql>>]
                        /\ ceiling' = [ceiling EXCEPT ![c] = "installed"]
                        /\ \E k \in IdleConnections :
                              ceilingConn' = [ceilingConn EXCEPT ![c] = k]
                   ELSE /\ driverCalls' = [driverCalls EXCEPT ![c] = @ \o <<sql>>]
                        /\ UNCHANGED <<ceiling, ceilingConn>>
                /\ \E k \in IdleConnections : conn' = [conn EXCEPT ![c] = k]
                /\ driver' = [driver EXCEPT ![c] = "pending"]
                /\ timer' = [timer EXCEPT ![c] = "armed"]
                /\ pc' = [pc EXCEPT ![c] = "racing"]
                /\ UNCHANGED outcome
        /\ UNCHANGED <<config, elapsed, driverRows, driverMessage>>
        /\ UNCHANGED <<vvars, svars, pvars>>

\* query() sending the session ceiling to whichever client of the pool, busy
\* with another caller's statement or not
QueryCeilingOnAnyClient(c, sql, params, installed) ==
    LET v == validateQuery(config, sql, params)
        timeoutSql == getStatementTimeoutSql(config)
    IN  /\ pc[c] = "idle"
        /\ csql' = [csql EXCEPT ![c] = sql]
        /\ validation' = [validation EXCEPT ![c] = v]
        /\ IF ~v.allowed
           THEN /\ outcome' = [outcome EXCEPT ![c] = ValidationRejected(v.reason)]
                /\ pc' = [pc EXCEPT ![c] = "done"]
                /\ UNCHANGED <<driver, timer, driverCalls, ceiling, logged,
                               conn, ceilingConn>>
           ELSE /\ logged' = [logged EXCEPT ![c] = @ \o WarningsLog(v)]
                /\ IF timeoutSql # ""
                   THEN /\ driverCalls' =
                              [driverCalls EXCEPT ![c] = @ \o <<timeoutSql, sql>>]
                        /\ ceiling' = [ceiling EXCEPT
                              ![c] = IF installed THEN "installed" ELSE "failed"]
                        /\ \E k \in Connections :
                              ceilingConn' = [ceilingConn EXCEPT ![c] = k]
                   ELSE /\ driverCalls' = [driverCalls EXCEPT ![c] = @ \o <<sql>>]
                        /\ installed
                        /\ UNCHANGED <<ceiling, ceilingConn>>
                /\ \E k \in IdleConnections : conn' = [conn EXCEPT ![c] = k]
                /\ driver' = [driver EXCEPT ![c] = "pending"]
                /\ timer' = [timer EXCEPT ![c] = "armed"]
                /\ pc' = [pc EXCEPT ![c] = "racing"]
                /\ UNCHANGED outcome
        /\ UNCHANGED <<config, elapsed, driverRows, driverMessage>>
        /\ UNCHANGED <<vvars, svars, pvars>>

\* query(sql, params) up to its await: steps 1 to 4.  installed tells whether
\* the best-effort SET LOCAL statement_timeout went through.  The session
\* ceiling and the statement each go to a client the pool picks among its
\* idle ones.
Query(c, sql, params, installed) ==
    LET v == validateQuery(config, sql, params)
        timeoutSql == getStatementTimeoutSql(config)
    IN  /\ pc[c] = "idle"
        /\ csql' = [csql EXCEPT ![c] = sql]
        /\ validation' = [validation EXCEPT ![c] = v]
        /\ IF ~v.allowed
           THEN /\ outcome' = [outcome EXCEPT ![c] = ValidationRejected(v.reason)]
                /\ pc' = [pc EXCEPT ![c] = "done"]
                /\ UNCHANGED <<driver, timer, driverCalls, ceiling, logged,
                               conn, ceilingConn>>
           ELSE /\ logged' = [logged EXCEPT ![c] = @ \o WarningsLog(v)]
                /\ IF timeoutSql # ""
                   THEN /\ driverCalls' =
                              [driverCalls EXCEPT ![c] = @ \o <<timeoutSql, sql>>]
                        /\ ceiling' = [ceiling EXCEPT
                              ![c] = IF installed THEN "installed" ELSE "failed"]
                        /\ \E k \in IdleConnections :
                              ceilingConn' = [ceilingConn EXCEPT ![c] = k]
                   ELSE /\ driverCalls' = [driverCalls EXCEPT ![c] = @ \o <<sql>>]
                        /\ installed
                        /\ UNCHANGED <<ceiling, ceilingConn>>
                /\ \E k \in IdleConnections : conn' = [conn EXCEPT ![c] = k]
                /\ driver' = [driver EXCEPT ![c] = "pending"]
                /\ timer' = [timer EXCEPT ![c] = "armed"]
                /\ pc' = [pc EXCEPT ![c] = "racing"]
                /\ UNCHANGED outcome
        /\ UNCHANGED <<config, elapsed, driverRows, driverMessage>>
        /\ UNCHANGED <<vvars, svars, pvars>>

\* wall-clock time passes for a call whose timer is armed
Tick(c) ==
    /\ timer[c] = "armed"
    /\ elapsed[c] < MaxElapsedMs
    /\ elapsed' = [elapsed EXCEPT ![c] = @ + TickMs]
    /\ UNCHANGED <<config, pc, csql, validation, driver, driverRows,
                   driverMessage, timer, outcome, driverCalls, ceiling, logged,
                   conn, ceilingConn>>
    /\ UNCHANGED <<vvars, svars, pvars>>

\* a driver resolution that settles the call whatever the race decided
DriverResolveAlways(c, n) ==
    /\ driver[c] = "pending"
    /\ driver' = [driver EXCEPT ![c] = "resolved"]
    /\ driverRows' = [driverRows EXCEPT ![c] = Rows(n)]
    /\ outcome' = [outcome EXCEPT
          ![c] = GuardedOutcome(config, validation[c], Rows(n), elapsed[c])]
    /\ logged' = [logged EXCEPT
          ![c] = @ \o SlowQueryLog(csql[c], <<>>, elapsed[c])
                   \o TruncationLog(config, Rows(n))]
    /\ pc' = [pc EXCEPT ![c] = "done"]
    /\ conn' = [conn EXCEPT ![c] = NoConnection]
    /\ ceilingConn' = [ceilingConn EXCEPT ![c] = NoConnection]
    /\ UNCHANGED <<config, csql, validation, driverMessage, timer, elapsed,
                   driverCalls, ceiling>>
    /\ UNCHANGED <<vvars, svars, pvars>>

\* pool.query resolves with n rows; the client goes back to the pool and its
\* session ceiling is of no further concern
DriverResolve(c, n) ==
    /\ driver[c] = "pending"
    /\ driver' = [driver EXCEPT ![c] = "resolved"]
    /\ driverRows' = [driverRows EXCEPT ![c] = Rows(n)]
    /\ IF pc[c] = "racing"
       THEN /\ outcome' = [outcome EXCEPT
                 ![c] = GuardedOutcome(config, validation[c], Rows(n), elapsed[c])]
            /\ logged' = [logged EXCEPT
                 ![c] = @ \o SlowQueryLog(csql[c], <<>>, elapsed[c])
                          \o TruncationLog(config, Rows(n))]
            /\ pc' = [pc EXCEPT ![c] = "done"]
       ELSE UNCHANGED <<outcome, logged, pc>>
    /\ conn' = [conn EXCEPT ![c] = NoConnection]
    /\ ceilingConn' = [ceilingConn EXCEPT ![c] = NoConnection]
    /\ UNCHANGED <<config, csql, validation, driverMessage, timer, elapsed,
                   driverCalls, ceiling>>
    /\ UNCHANGED <<vvars, svars, pvars>>

\* a driver failure answered by handing the statement to the driver once more
DriverRejectRetry(c, message) ==
    /\ driver[c] = "pending"
    /\ driverMessage' = [driverMessage EXCEPT ![c] = message]
    /\ IF pc[c] = "racing" /\ Len(driverCalls[c]) < 3
       THEN /\ driverCalls' = [driverCalls EXCEPT ![c] = @ \o <<csql[c]>>]
            /\ UNCHANGED <<driver, outcome, pc, conn, ceilingConn>>
       ELSE /\ driver' = [driver EXCEPT ![c] = "rejected"]
            /\ conn' = [conn EXCEPT ![c] = NoConnection]
            /\ ceilingConn' = [ceilingConn EXCEPT ![c] = NoConnection]
            /\ IF pc[c] = "racing"
               THEN /\ outcome' = [outcome EXCEPT ![c] = DriverError(message)]
                    /\ pc' = [pc EXCEPT ![c] = "done"]
               ELSE UNCHANGED <<outcome, pc>>
            /\ UNCHANGED driverCalls
    /\ UNCHANGED <<config, csql, validation, driverRows, timer, elapsed,
                   ceiling, logged>>
    /\ UNCHANGED <<vvars, svars, pvars>>

\* a driver failure swallowed: the call succeeds with no rows after the
\* truncation step
DriverRejectAsEmptyResult(c, message) ==
    /\ driver[c] = "pending"
    /\ driver' = [driver EXCEPT ![c] = "rejected"]
    /\ driverMessage' = [driverMessage EXCEPT ![c] = message]
    /\ IF pc[c] = "racing"
       THEN /\ outcome' = [outcome EXCEPT
                 ![c] = GuardedOutcome(config, validation[c], <<>>, elapsed[c])]
            /\ pc' = [pc EXCEPT ![c] = "done"]
       ELSE UNCHANGED <<outcome, pc>>
    /\ conn' = [conn EXCEPT ![c] = NoConnection]
    /\ ceilingConn' = [ceilingConn EXCEPT ![c] = NoConnection]
    /\ UNCHANGED <<config, csql, validation, driverRows, timer, elapsed,
                   driverCalls, ceiling, logged>>
    /\ UNCHANGED <<vvars, svars, pvars>>

\* pool.query rejects with an error carrying message (connection failure,
\* SQL error, statement cancelled by the session ceiling); the client goes
\* back to the pool
DriverReject(c, message) ==
    /\ driver[c] = "pending"
    /\ driver' = [driver EXCEPT ![c] = "rejected"]
    /\ driverMessage' = [driverMessage EXCEPT ![c] = message]
    /\ IF pc[c] = "racing"
       THEN /\ outcome' = [outcome EXCEPT ![c] = DriverError(message)]
            /\ pc' = [pc EXCEPT ![c] = "done"]
       ELSE UNCHANGED <<outcome, pc>>
    /\ conn' = [conn EXCEPT ![c] = NoConnection]
    /\ ceilingConn' = [ceilingConn EXCEPT ![c] = NoConnection]
    /\ UNCHANGED <<config, csql, validation, driverRows, timer, elapsed,
                   driverCalls, ceiling, logged>>
    /\ UNCHANGED <<vvars, svars, pvars>>

\* a timer whose callback also cancels the statement and frees its client
TimerFireCancels(c) ==
    /\ timer[c] = "armed"
    /\ elapsed[c] >= config.maxQueryTimeMs
    /\ timer' = [timer EXCEPT ![c] = "fired"]
    /\ IF pc[c] = "racing"
       THEN /\ outcome' = [outcome EXCEPT
                 ![c] = ExecutionTimeout(config.maxQueryTimeMs)]
            /\ pc' = [pc EXCEPT ![c] = "done"]
            /\ driver' = [driver EXCEPT ![c] = "rejected"]
            /\ conn' = [conn EXCEPT ![c] = NoConnection]
            /\ ceilingConn' = [ceilingConn EXCEPT ![c] = NoConnection]
       ELSE UNCHANGED <<outcome, pc, driver, conn, ceilingConn>>
    /\ UNCHANGED <<config, csql, validation, driverRows, driverMessage,
                   elapsed, driverCalls, ceiling, logged>>
    /\ UNCHANGED <<vvars, svars, pvars>>

\* a timer whose callback does not reject the race
TimerFireWithoutReject(c) ==
    /\ timer[c] = "armed"
    /\ elapsed[c] >= config.maxQueryTimeMs
    /\ timer' = [timer EXCEPT ![c] = "fired"]
    /\ UNCHANGED <<config, pc, csql, validation, driver, driverRows,
                   driverMessage, elapsed, outcome, driverCalls, ceiling, logged,
                   conn, ceilingConn>>
    /\ UNCHANGED <<vvars, svars, pvars>>

\* the timeout timer of the race fires
TimerFire(c) ==
    /\ timer[c] = "armed"
    /\ elapsed[c] >= config.maxQueryTimeMs
    /\ timer' = [timer EXCEPT ![c] = "fired"]
    /\ IF pc[c] = "racing"
       THEN /\ outcome' = [outcome EXCEPT
                 ![c] = ExecutionTimeout(config.maxQueryTimeMs)]
            /\ pc' = [pc EXCEPT ![c] = "done"]
       ELSE UNCHANGED <<outcome, pc>>
    /\ UNCHANGED <<config, csql, validation, driver, driverRows, driverMessage,
                   elapsed, driverCalls, ceiling, logged, conn, ceilingConn>>
    /\ UNCHANGED <<vvars, svars, pvars>>

Next ==
    \/ \E c \in Callers, sql \in GuardStatements, installed \in BOOLEAN :
          Query(c, sql, <<>>, installed)
    \/ \E c \in Callers : Tick(c)
    \/ \E c \in Callers, n \in 0..MaxDriverRows : DriverResolve(c, n)
    \/ \E c \in Callers, m \in DriverMessages : DriverReject(c, m)
    \/ \E c \in Callers : TimerFire(c)

Spec == Init /\ [][Next]_vars

\* the timer and the clock it runs on are fair: setTimeout callbacks run
FairSpec ==
    /\ Spec
    /\ \A c \in Callers : WF_vars(Tick(c)) /\ WF_vars(TimerFire(c))

(***************************************************************************)
(* Properties of the guarded query()                                       *)
(***************************************************************************)

TruncationLogged(c) ==
    \E k \in 1..Len(logged[c]) : logged[c][k].event = "truncated"

PrimaryCalls(c) ==
    Cardinality({k \in 1..Len(driverCalls[c]) : driverCalls[c][k] = csql[c]})

HasServerCeiling(c) ==
    /\ ceiling[c] = "installed"
    /\ conn[c] \in Connections
    /\ ceilingConn[c] = conn[c]

AloneVerdict ==
    [cfg \in GuardConfigs |->
        [sql \in GuardStatements |-> validateQuery(cfg, sql, <<>>)]]

SlowQueryEntries(c) ==
    {k \in 1..Len(logged[c]) : logged[c][k].event = "slow query"}

C26_ConfigNeverChanges ==
    [][/\ config' = config
       /\ (sret' # sret /\ sret'.op = "getStatementTimeoutSql") =>
             sret'.value = getStatementTimeoutSql(config)
       /\ (sret' # sret /\ sret'.op = "limitResults") =>
             sret'.value = limitResults(config, Rows(sret'.n), sret'.maxRows)
       /\ vres' # vres => vres' = validateQuery(config, vsql, vparams)
       /\ (got' # got /\ scalls' # scalls) => got' = config]_vars

\* a getConfig() result written to until it differs from the config in
\* maxResultRows, beside a limitResults call that truncated to the config's
\* maxResultRows, not to the written value
C26_Witness ==
    /\ got # NoConfig
    /\ got.maxResultRows = 1
    /\ config.maxResultRows = SmallMaxResultRows
    /\ scalls = 2
    /\ sret.op = "limitResults"
    /\ sret.maxRows = 0
    /\ sret.n = MaxDriverRows
    /\ Len(sret.value) = config.maxResultRows

(***************************************************************************)
(* Properties of the pool                                                  *)
(***************************************************************************)

\* the Pool objects that were constructed and have not ended
LivePools == {i \in Pools : poolState[i] \in {"open", "ending"}}

\* C30: at most one pool is live at a time, the pool getPool() hands to a
\* caller is one on which end() has not been called, and a query in flight
\* was issued on a pool that was open.
C30_NoQueryOnEndingPool ==
    /\ Cardinality(LivePools) <= 1
    /\ \A c \in Callers :
          /\ qstate[c] \in {"none", "open"}
          /\ ppc[c] = "querying" => qstate[c] = "open"

(***************************************************************************)
(* Properties of validateQuery                                             *)
(***************************************************************************)

Validated == vcalls > 0

NormalizedInput == ToLowerCase(Trim(vsql))

\* the statement holds w as a keyword: a whole word of the text
HasKeyword(sql, w) == CountWord(sql, w) > 0

MentionsProtectedTable(sql) ==
    \E t \in 1..Len(largeTables) : Includes(sql, largeTables[t])

\* C2: a text longer than maxQueryLength is rejected with a reason citing the
\* limit and the actual length, whatever its content and whether
\* enableComplexityCheck is on or off.
C2_TooLongIsRejected ==
    (Validated /\ Len(vsql) > config.maxQueryLength) =>
        /\ ~vres.allowed
        /\ vres.reason =
              "Query exceeds maximum length of " \o ToString(config.maxQueryLength)
                  \o " characters (" \o ToString(Len(vsql)) \o " chars)"

\* a padded text over the limit only by its padding, complexity check off
C2_Witness ==
    /\ Validated
    /\ ~config.enableComplexityCheck
    /\ Len(vsql) > config.maxQueryLength
    /\ Len(Trim(vsql)) <= config.maxQueryLength
    /\ ~vres.allowed

\* C3: a statement within the length limit that mentions a protected table
\* and has no where keyword is rejected for the missing filtering predicate
\* when it has no limit keyword, and allowed with the verify-the-LIMIT
\* warning when it has one and the cartesian check does not reject it.
C3_MissingWhereOnProtectedTable ==
    (/\ Validated
     /\ Len(vsql) <= config.maxQueryLength
     /\ MentionsProtectedTable(NormalizedInput)
     /\ ~HasKeyword(NormalizedInput, "where")) =>
        IF ~HasKeyword(NormalizedInput, "limit")
        THEN /\ ~vres.allowed
             /\ vres.reason = MissingWhereReason
        ELSE checkCartesianProduct(NormalizedInput).allowed =>
                /\ vres.allowed
                /\ \E k \in 1..Len(WarningsOf(vres)) :
                      WarningsOf(vres)[k] = MissingWhereWarning

\* the statement lists tables in one comma-separated FROM clause
HasCommaSeparatedFrom(sql) ==
    \E i \in 1..Len(sql) :
        /\ WordAt(sql, "from", i)
        /\ \E k \in (i + 4)..Len(sql) :
              /\ CharAt(sql, k) = ","
              /\ \A m \in (i + 4)..(k - 1) : CharAt(sql, m) \in WordChars \cup {" "}

\* a join keyword followed anywhere later in the text by an on keyword
HasJoinThenOn(sql) ==
    \E i \in 1..Len(sql) :
        /\ WordAt(sql, "join", i)
        /\ \E j \in (i + 4)..Len(sql) : WordAt(sql, "on", j)

\* an equality predicate after a where keyword
HasEqualityInWhere(sql) ==
    \E i \in 1..Len(sql) :
        /\ WordAt(sql, "where", i)
        /\ \E p \in (i + 5)..Len(sql) : CharAt(sql, p) = "="

\* C4: a statement that selects from two or more tables listed in one
\* comma-separated FROM clause, with no join ... on and no equality predicate
\* in a where clause, is rejected, and with the cartesian-product reason
\* unless the missing-predicate check rejected it first.
C4_CommaJoinIsRejected ==
    (/\ Validated
     /\ Len(vsql) <= config.maxQueryLength
     /\ HasCommaSeparatedFrom(NormalizedInput)
     /\ ~HasJoinThenOn(NormalizedInput)
     /\ ~HasEqualityInWhere(NormalizedInput)) =>
        /\ ~vres.allowed
        /\ checkMissingWhereClause(NormalizedInput).allowed =>
              vres.reason = CartesianReason

\* C5: a statement with a join keyword followed anywhere later in the text,
\* on the same line or a later one, by an on keyword is not rejected as a
\* cartesian product.
C5_JoinOnIsNotCartesian ==
    (Validated /\ HasJoinThenOn(NormalizedInput)) =>
        ~(~vres.allowed /\ vres.reason = CartesianReason)

ValidatedWithComplexityFlipped ==
    validateQuery([config EXCEPT !.enableComplexityCheck = ~@], vsql, vparams)

\* C13: the complexity heuristics never reject: with enableComplexityCheck on
\* and off, all else equal, validateQuery returns the same allowed value and
\* the same reason; only the warnings may differ.
C13_ComplexityNeverRejects ==
    Validated =>
        LET flipped == ValidatedWithComplexityFlipped
        IN  /\ vres.allowed = flipped.allowed
            /\ HasReason(vres) = HasReason(flipped)
            /\ HasReason(vres) => vres.reason = flipped.reason

\* a statement the heuristics warn about: allowed with the nested-subqueries
\* warning when the check is on, allowed without warnings when it is off
C13_Witness ==
    /\ Validated
    /\ config.enableComplexityCheck
    /\ vres.allowed
    /\ WarningsOf(vres) = <<"Query has 4 nested subqueries, which may be slow">>
    /\ ValidatedWithComplexityFlipped = [allowed |-> TRUE]

\* C14: a result of validateQuery carries a reason if and only if it is a
\* rejection: every rejection has a non-empty reason and no allowed result
\* has a reason.
C14_ReasonIffRejected ==
    Validated =>
        /\ HasReason(vres) <=> ~vres.allowed
        /\ ~vres.allowed => Len(vres.reason) > 0

\* a rejection by the cartesian check, which carries its reason and no
\* warnings
C14_Witness ==
    /\ Validated
    /\ ~vres.allowed
    /\ DOMAIN vres = {"allowed", "reason"}
    /\ vres.reason = CartesianReason

\* C15: every config a service holds, built from the environment defaults or
\* from a caller-supplied override, has non-negative maxQueryTimeMs,
\* maxResultRows and maxQueryLength, and maxQueryTimeMs greater than 0.
C15_ConfigValuesNonNegative ==
    /\ config.maxQueryTimeMs > 0
    /\ config.maxResultRows >= 0
    /\ config.maxQueryLength >= 0

\* validateQuery rejected the statement for a missing predicate on a
\* protected table
RejectedForMissingPredicate ==
    /\ Validated
    /\ Len(vsql) <= config.maxQueryLength
    /\ ~checkMissingWhereClause(NormalizedInput).allowed

\* the reason names a protected table
ReasonNamesTable(reason, t) == Includes(ToLowerCase(reason), largeTables[t])

\* C17 (as stated): the reason of a missing-predicate rejection names the
\* protected table that the statement mentions and warns of unbounded row
\* volume.
C17_ReasonNamesTable ==
    RejectedForMissingPredicate =>
        /\ ~vres.allowed
        /\ Includes(vres.reason, "millions of rows")
        /\ \E t \in 1..Len(largeTables) :
              /\ Includes(NormalizedInput, largeTables[t])
              /\ ReasonNamesTable(vres.reason, t)

\* C17 (amended): the reason of a missing-predicate rejection is one fixed
\* text, the same for every protected table: it warns of unbounded row volume
\* and names no table.
C17_ReasonIsFixedText ==
    RejectedForMissingPredicate =>
        /\ ~vres.allowed
        /\ vres.reason = "Query targets large table without WHERE clause and no LIMIT. This could return millions of rows."
        /\ Includes(vres.reason, "millions of rows")
        /\ LET reason == ToLowerCase(vres.reason)
           IN  \A t \in 1..Len(largeTables) : ~Includes(reason, largeTables[t])

\* a missing-predicate rejection of a statement that mentions
\* master_ticketing_groups
C17_Witness ==
    /\ RejectedForMissingPredicate
    /\ Includes(NormalizedInput, "master_ticketing_groups")
    /\ ~vres.allowed
    /\ ~Includes(ToLowerCase(vres.reason), "master_ticketing_groups")

RejectedAsCartesian == ~vres.allowed /\ vres.reason = CartesianReason

\* count of from keywords plus count of join keywords
TotalTables(sql) == CountWord(sql, "from") + CountWord(sql, "join")

HasNestedSubqueriesWarning(r) ==
    \E k \in 1..Len(WarningsOf(r)) : Includes(WarningsOf(r)[k], "nested subqueries")

\* select keywords that follow an earlier select keyword
NestedSelects(sql) == CountWord(sql, "select") - 1

SingleLine(sql) == \A i \in 1..Len(sql) : CharAt(sql, i) \notin LineTerminators

\* C20: with enableComplexityCheck on, an allowed statement with more than 3
\* nested selects, as in four or more levels of subquery written on a single
\* line, receives the nested-subqueries warning, and a statement with 3 or
\* fewer does not.
C20_NestedSubqueriesWarning ==
    (Validated /\ config.enableComplexityCheck /\ vres.allowed) =>
        /\ (SingleLine(NormalizedInput) /\ NestedSelects(NormalizedInput) > 3) =>
              HasNestedSubqueriesWarning(vres)
        /\ NestedSelects(NormalizedInput) <= 3 => ~HasNestedSubqueriesWarning(vres)

\* the result has the same allowed value and the same warnings as vres
SameVerdict(r) ==
    /\ r.allowed = vres.allowed
    /\ WarningsOf(r) = WarningsOf(vres)

\* C27: a text within maxQueryLength gets the allowed value and the warnings
\* of its trimmed, lower-cased form, and of that form padded with other white
\* space, whenever these are within maxQueryLength too; so any two texts
\* within maxQueryLength that trim and lower-case to the same text are
\* validated alike.
C27_CaseAndPaddingInsensitive ==
    (vcalls = 1 /\ Len(vsql) <= config.maxQueryLength) =>
        LET normal == NormalizedInput
            padded == "\t" \o normal \o "\n "
        IN  /\ ToLowerCase(Trim(padded)) = normal
            /\ ToLowerCase(Trim(normal)) = normal
            /\ SameVerdict(validateQuery(config, normal, vparams))
            /\ Len(padded) <= config.maxQueryLength =>
                  SameVerdict(validateQuery(config, padded, vparams))

\* a padded text with upper-case keywords that was allowed with a warning:
\* its LIMIT appears in lower case only after normalisation, and its other
\* padding fits within maxQueryLength too
C27_Witness ==
    /\ vcalls = 1
    /\ Trim(vsql) # vsql
    /\ ToLowerCase(vsql) # vsql
    /\ Len(vsql) <= config.maxQueryLength
    /\ Len(vsql) + 1 <= config.maxQueryLength
    /\ HasWarnings(vres)
    /\ Includes(vsql, "LIMIT")
    /\ ~Includes(vsql, "limit")

\* C29: a rejection carries allowed and reason and nothing else: the warnings
\* the complexity check collected before the rejecting check are dropped, so
\* a result with warnings is an allowed one.
C29_RejectedHasNoWarnings ==
    Validated =>
        /\ ~vres.allowed => DOMAIN vres = {"allowed", "reason"}
        /\ HasWarnings(vres) => vres.allowed
        /\ "warnings" \in DOMAIN vres => vres.warnings # <<>>

\* a statement within maxQueryLength for which the complexity check had a
\* warning and a later check rejected
C29_Witness ==
    /\ Validated
    /\ ~vres.allowed
    /\ Len(vsql) <= config.maxQueryLength
    /\ config.enableComplexityCheck
    /\ ComplexityWarnings(NormalizedInput) # <<>>

====
